---- MODULE Spec2Model ----
(***************************************************************************)
(* A model of langscikw: the KWE pipeline (langscikw.py), the TF-IDF       *)
(* extractor's corpus assembly and top-n selection (tfidfmodel.py) and the *)
(* shared helpers (kwe_toolkit.py).                                        *)
(*                                                                         *)
(* Python strings are sequences of one-character strings, so that slicing, *)
(* splitting, substring tests, case tests and comparison are computed.     *)
(***************************************************************************)
EXTENDS Integers, Sequences, FiniteSets, TLC

VARIABLES
    \* ---- KWE object (langscikw.py) ----
    max_steps,      \* self.max_steps
    model_step2,    \* self.model_step2 (None or a TfidfExtractor)
    model_step3,    \* self.model_step3 (None or a TfidfExtractor)
    op,             \* the last public method called on the KWE object
    raised,         \* the exception that call ended with, or "none"
    keywords,       \* the value the last extract_keywords call returned
    call,           \* what the last extract_keywords call did (its arguments,
                    \* the stage results, whether _extract_filler_kws ran)
    train_log,      \* which trainings the object has been through since
                    \* __init__ or reset
    \* ---- one call of KWE._deduplicate, statement by statement ----
    dedup,          \* all_kws (in iteration order), threshold, final_kws,
                    \* the number of candidates iterated, and the position
    \* ---- one call of _sort_chapters, statement by statement ----
    chapters,       \* the argument, the loop's files, c and iterator, the position
    \* ---- one call of TfidfExtractor._extract_topn_from_matrix ----
    topn,           \* matrix, n, the results, the position
    \* ---- one call of KWE._extract_filler_kws after the extraction ----
    filler,         \* kws, kw_corpus, kws_union, the position
    \* ---- one TfidfExtractor through build_corpus and train ----
    extractor,      \* the path, self, what build_corpus returned, how
                    \* build_corpus and train ended, the position
    \* ---- one call of read_text ----
    read            \* the path, how the call ended and with what, the position

kwe_vars == <<max_steps, model_step2, model_step3, op, raised, keywords, call, train_log>>

vars == <<kwe_vars, dedup, chapters, topn, filler, extractor, read>>

\* Python's None
None == [type |-> "NoneType"]

(***************************************************************************)
(* Strings                                                                 *)
(***************************************************************************)

\* The characters that occur in the model, in code point order.
CodePoints ==
    <<"\n", " ", "-", ".", "/", "1", "2", "3", "4", "A", "B", "C", "D",
      "a", "b", "c", "d", "e", "f", "g", "i", "k", "l", "m", "n", "o", "p",
      "r", "s", "t", "u", "x", "z", "|">>

UpperCase == <<"A", "B", "C", "D">>
LowerCase == <<"a", "b", "c", "d">>

ord(ch) == CHOOSE i \in 1..Len(CodePoints) : CodePoints[i] = ch

Range(s) == {s[i] : i \in 1..Len(s)}

\* str.__lt__: lexicographic by code point, a proper prefix is smaller.
RECURSIVE StrLess(_, _)
StrLess(a, b) ==
    IF b = <<>> THEN FALSE
    ELSE IF a = <<>> THEN TRUE
    ELSE IF a[1] = b[1] THEN StrLess(Tail(a), Tail(b))
    ELSE ord(a[1]) < ord(b[1])

\* sub in s
Contains(s, sub) ==
    \E i \in 0..(Len(s) - Len(sub)) : SubSeq(s, i + 1, i + Len(sub)) = sub

\* s[-k:]
LastChars(s, k) == IF Len(s) <= k THEN s ELSE SubSeq(s, Len(s) - k + 1, Len(s))

\* s.split(sep)[-1] for a one-character sep
RECURSIVE AfterLast(_, _)
AfterLast(s, sep) ==
    IF s = <<>> \/ s[Len(s)] = sep THEN <<>>
    ELSE Append(AfterLast(SubSeq(s, 1, Len(s) - 1), sep), s[Len(s)])

\* list.sort / sorted(): insertion into an already sorted prefix (stable)
RECURSIVE Insert(_, _)
Insert(sorted_prefix, x) ==
    IF sorted_prefix = <<>> THEN <<x>>
    ELSE IF StrLess(x, sorted_prefix[Len(sorted_prefix)])
         THEN Append(Insert(SubSeq(sorted_prefix, 1, Len(sorted_prefix) - 1), x),
                     sorted_prefix[Len(sorted_prefix)])
         ELSE Append(sorted_prefix, x)

RECURSIVE sorted(_)
sorted(s) ==
    IF s = <<>> THEN <<>>
    ELSE Insert(sorted(SubSeq(s, 1, Len(s) - 1)), s[Len(s)])

Whitespace == {" ", "\n"}
Uppers == {"A", "B", "C", "D"}
Lowers == {"a", "b", "c", "d", "e", "f", "g", "i", "k", "l", "m", "n", "o", "p",
           "r", "s", "t", "u", "x", "z"}

\* str.lower()
lower(s) ==
    [i \in 1..Len(s) |->
        IF s[i] \in Uppers
        THEN LowerCase[CHOOSE k \in 1..Len(UpperCase) : UpperCase[k] = s[i]]
        ELSE s[i]]

\* str.isalpha(), str.islower(), str.isupper()
isalpha(s) == s # <<>> /\ Range(s) \subseteq (Uppers \cup Lowers)
islower(s) == Range(s) \cap Lowers # {} /\ Range(s) \cap Uppers = {}
isupper(s) == Range(s) \cap Uppers # {} /\ Range(s) \cap Lowers = {}

\* str.split(): the runs of non-whitespace characters
RECURSIVE split_ws(_, _)
split_ws(s, token) ==
    IF s = <<>> THEN (IF token = <<>> THEN <<>> ELSE <<token>>)
    ELSE IF s[1] \in Whitespace
         THEN (IF token = <<>> THEN <<>> ELSE <<token>>) \o split_ws(Tail(s), <<>>)
         ELSE split_ws(Tail(s), Append(token, s[1]))

\* str.split(sep) for a non-empty separator
RECURSIVE split_sep(_, _, _)
split_sep(s, sep, piece) ==
    IF Len(s) < Len(sep) THEN <<piece \o s>>
    ELSE IF SubSeq(s, 1, Len(sep)) = sep
         THEN <<piece>> \o split_sep(SubSeq(s, Len(sep) + 1, Len(s)), sep, <<>>)
         ELSE split_sep(Tail(s), sep, Append(piece, s[1]))

\* sep.join(list)
RECURSIVE str_join(_, _)
str_join(sep, list) ==
    IF list = <<>> THEN <<>>
    ELSE IF Len(list) = 1 THEN list[1]
    ELSE list[1] \o sep \o str_join(sep, Tail(list))

\* the orders a set can be iterated in
RECURSIVE Orders(_)
Orders(S) ==
    IF S = {} THEN {<<>>}
    ELSE UNION {{<<x>> \o rest : rest \in Orders(S \ {x})} : x \in S}

\* the lists of at most maxlen distinct members of S
Lists(S, maxlen) == UNION {Orders(sub) : sub \in {x \in SUBSET S : Cardinality(x) <= maxlen}}

(***************************************************************************)
(* The file system the program runs against                                *)
(***************************************************************************)

NoEntity == [kind |-> "missing", text |-> <<>>, pickled |-> <<>>, files |-> <<>>, dirs |-> <<>>]
TextFile(t) == [NoEntity EXCEPT !.kind = "file", !.text = t]
JoblibFile(corpus) == [NoEntity EXCEPT !.kind = "file", !.pickled = corpus]
Directory(fs, ds) == [NoEntity EXCEPT !.kind = "dir", !.files = fs, !.dirs = ds]

\* Candidate terms
T_ab_aa == <<"a", "b", " ", "a", "a">>
T_ab_cd == <<"a", "b", " ", "c", "d">>
T_aa_cd == <<"a", "a", " ", "c", "d">>
T_bb_cd == <<"b", "b", " ", "c", "d">>
T_Ab_Cd == <<"A", "b", " ", "C", "d">>
T_ab_CD == <<"a", "b", " ", "C", "D">>
T_ab_Cd == <<"a", "b", " ", "C", "d">>
T_a1_cd == <<"a", "1", " ", "c", "d">>
T_a_b_cd == <<"a", "-", "b", " ", "c", "d">>
T_ab_ab_ab == <<"a", "b", " ", "a", "b", " ", "a", "b">>

\* File contents
TextX == <<"a", "b">>
TextY == <<"c", "d">>
TextZ == <<"e", "f">>
NewLine == <<"\n">>
\* keyword lists, one term per line
Keywords1 == T_Ab_Cd \o NewLine \o T_ab_cd \o NewLine \o T_aa_cd \o NewLine
Keywords2 == T_ab_cd \o NewLine \o T_ab_aa \o NewLine
Keywords3 == <<>>
Keywords4 == T_aa_cd \o NewLine \o T_Ab_Cd                \* no newline at the end

\* Paths
EmptyPath == <<>>                                   \* ""
Path_c_gz == <<"c", ".", "g", "z">>                \* a joblib dump of a corpus
Path_e_gz == <<"e", ".", "g", "z">>                \* a joblib dump of []
Path_b_tex == <<"b", ".", "t", "e", "x">>          \* a single text file
Path_d == <<"d">>                                  \* a directory of text files
Path_m == <<"m">>                                  \* a directory with a .pdf in it
Path_s == <<"s">>                                  \* a directory of a subdirectory
Path_n == <<"n">>                                  \* nothing there
Name_1_tex == <<"1", ".", "t", "e", "x">>
Name_a_txt == <<"a", ".", "t", "x", "t">>
Name_x_pdf == <<"x", ".", "p", "d", "f">>
Name_k == <<"k">>
Path_y_txt == <<"y", ".", "t", "x", "t">>          \* documents
Path_z_txt == <<"z", ".", "t", "x", "t">>
Path_kw1 == <<"k", "1">>                           \* keyword lists
Path_kw2 == <<"k", "2">>
Path_kw3 == <<"k", "3">>
Path_kw4 == <<"k", "4">>

\* os.path.join(path, entity)
join(path, entity) == path \o <<"/">> \o entity

\* Directories of files, one for every list of at most MaxEntries of these
\* names: the list is what os.listdir and os.walk give for the directory, in
\* their order. The name of the directory is "g" followed by the names.
Name_e_tex == <<"e", ".", "t", "e", "x">>
EntryNames == {Name_a_txt, Name_1_tex, Name_e_tex, Name_x_pdf}

\* The largest number of files in such a directory.
MaxEntries == 3

RECURSIVE Concat(_)
Concat(list) == IF list = <<>> THEN <<>> ELSE list[1] \o Concat(Tail(list))

ListedDir(list) == <<"g">> \o Concat(list)

\* what a file of a given name holds
FileText(name) ==
    IF name = Name_a_txt THEN TextX ELSE IF name = Name_1_tex THEN TextY ELSE TextZ

ListedEntities ==
    UNION {{<<ListedDir(list), Directory(list, <<>>)>>}
            \cup {<<join(ListedDir(list), list[i]), TextFile(FileText(list[i]))>> :
                        i \in 1..Len(list)} :
           list \in Lists(EntryNames, MaxEntries)}

Listed ==
    [path \in {e[1] : e \in ListedEntities} |->
        (CHOOSE e \in ListedEntities : e[1] = path)[2]]

FileSystem ==
    (Path_c_gz :> JoblibFile(<<TextX, TextY>>)) @@
    (Path_e_gz :> JoblibFile(<<>>)) @@
    (Path_b_tex :> TextFile(TextX)) @@
    (Path_y_txt :> TextFile(TextY)) @@
    (Path_z_txt :> TextFile(TextZ)) @@
    (Path_kw1 :> TextFile(Keywords1)) @@
    (Path_kw2 :> TextFile(Keywords2)) @@
    (Path_kw3 :> TextFile(Keywords3)) @@
    (Path_kw4 :> TextFile(Keywords4)) @@
    (Path_d :> Directory(<<Name_a_txt, Name_1_tex>>, <<>>)) @@
    (join(Path_d, Name_a_txt) :> TextFile(TextX)) @@
    (join(Path_d, Name_1_tex) :> TextFile(TextY)) @@
    (Path_m :> Directory(<<Name_a_txt, Name_x_pdf>>, <<>>)) @@
    (join(Path_m, Name_a_txt) :> TextFile(TextX)) @@
    (join(Path_m, Name_x_pdf) :> TextFile(TextY)) @@
    (Path_s :> Directory(<<>>, <<Name_k>>)) @@
    (join(Path_s, Name_k) :> Directory(<<Name_x_pdf>>, <<>>)) @@
    (join(join(Path_s, Name_k), Name_x_pdf) :> TextFile(TextY)) @@
    Listed

entity(path) == IF path \in DOMAIN FileSystem THEN FileSystem[path] ELSE NoEntity
isfile(path) == entity(path).kind = "file"
isdir(path) == entity(path).kind = "dir"
listdir(path) == entity(path).files \o entity(path).dirs

\* What a call ends with: a value, or an exception
Return(v) == [exc |-> "none", val |-> v]
Raise(e) == [exc |-> e, val |-> None]
\* the rest of a function after a call: an exception propagates
Then(result, Rest(_)) == IF result.exc # "none" THEN result ELSE Rest(result.val)

(***************************************************************************)
(* kwe_toolkit.py                                                          *)
(***************************************************************************)

legal_files == {<<".", "t", "x", "t">>, <<".", "t", "e", "x">>}


\* _find_text_files with a list
find_text_files_list(files) ==
    LET Legal(f) == LastChars(f, 4) \in legal_files
    IN  SelectSeq(files, Legal)

\* _find_text_files with a str
find_text_files_str(file) ==
    IF LastChars(file, 4) \in legal_files THEN Return(file)
    ELSE Raise("FileNotFoundError")

\* list.pop(0) in the place of list.remove(x)
remove_first(list, x) == Tail(list)

\* list.remove(x): drops the first occurrence
RECURSIVE remove(_, _)
remove(list, x) ==
    IF list = <<>> THEN <<>>
    ELSE IF list[1] = x THEN Tail(list)
    ELSE <<list[1]>> \o remove(Tail(list), x)

\* list.insert(i, x)
insert(list, i, x) == SubSeq(list, 1, i) \o <<x>> \o SubSeq(list, i + 1, Len(list))

Str_intro == <<"i", "n", "t", "r", "o">>
Str_einleitung == <<"e", "i", "n", "l", "e", "i", "t", "u", "n", "g">>
Str_1 == <<"1">>
Str_conclusion == <<"c", "o", "n", "c", "l", "u", "s", "i", "o", "n">>

IsIntro(f) == Contains(f, Str_intro) \/ Contains(f, Str_einleitung) \/ Contains(f, Str_1)
IsConclusion(f) == Contains(f, Str_conclusion)

\* One pass of the body of "for f in files" in _sort_chapters. st is the loop's
\* state: the list (mutated in place), the counter c and the list iterator's
\* index it (0-based: the iterator yields files[it] and advances, and stops
\* when it >= len(files)).
sort_chapters_body(st) ==
    LET f == st.files[st.it + 1]
    IN  IF IsIntro(f)
        THEN [files |-> insert(remove(st.files, f), st.c, f), c |-> st.c + 1, it |-> st.it + 1]
        ELSE IF IsConclusion(f)
        THEN [files |-> Append(remove(st.files, f), f), c |-> st.c, it |-> st.it + 1]
        ELSE [st EXCEPT !.it = st.it + 1]

sort_chapters_start(files) == [files |-> sorted(files), c |-> 0, it |-> 0]

RECURSIVE sort_chapters_loop(_)
sort_chapters_loop(st) ==
    IF st.it >= Len(st.files) THEN st.files
    ELSE sort_chapters_loop(sort_chapters_body(st))

\* _sort_chapters
sort_chapters(files) == sort_chapters_loop(sort_chapters_start(files))

\* preprocess
preprocess(text) == text

\* the body of "for file in files" in read_text: open() failing gives ""
filetext(path, file) ==
    IF isfile(join(path, file)) THEN entity(join(path, file)).text ELSE <<>>

RECURSIVE read_files(_, _)
read_files(path, files) ==
    IF files = <<>> THEN <<>>
    ELSE preprocess(filetext(path, files[1])) \o <<"\n", "\n">> \o read_files(path, Tail(files))

\* read_text, the directory branch after _sort_chapters
read_text_dir(path, files) ==
    IF files = <<>> THEN Raise("TypeError")               \* raise print(...)
    ELSE Return(read_files(path, files))

\* read_text
read_text(path) ==
    IF isdir(path)
    THEN read_text_dir(path, sort_chapters(find_text_files_list(listdir(path))))
    ELSE IF isfile(path)
    THEN Then(find_text_files_str(path), LAMBDA file : Return(preprocess(entity(file).text)))
    ELSE Then(find_text_files_str(path), LAMBDA file : Return(<<>>))

Min(a, b) == IF a <= b THEN a ELSE b
Max(a, b) == IF a >= b THEN a ELSE b

\* jellyfish.jaro_winkler, first loop: for each character of s1 in turn, flag
\* the first unflagged equal character of s2 within the search range. Gives
\* the flagged positions of both strings.
RECURSIVE jaro_flags(_, _, _, _, _, _)
jaro_flags(s1, s2, search_range, i, s1_flags, s2_flags) ==
    IF i > Len(s1) THEN [s1 |-> s1_flags, s2 |-> s2_flags]
    ELSE LET low == Max(1, i - search_range)
             hi == Min(i + search_range, Len(s2))
             hits == {j \in low..hi : j \notin s2_flags /\ s2[j] = s1[i]}
         IN  IF hits = {} THEN jaro_flags(s1, s2, search_range, i + 1, s1_flags, s2_flags)
             ELSE LET j == CHOOSE x \in hits : \A y \in hits : x <= y
                  IN  jaro_flags(s1, s2, search_range, i + 1,
                                 s1_flags \cup {i}, s2_flags \cup {j})

\* the flagged characters of s, in order
RECURSIVE flagged(_, _, _)
flagged(s, flags, i) ==
    IF i > Len(s) THEN <<>>
    ELSE (IF i \in flags THEN <<s[i]>> ELSE <<>>) \o flagged(s, flags, i + 1)

\* the length of the common prefix of s1 and s2, up to j characters
RECURSIVE common_prefix(_, _, _, _)
common_prefix(s1, s2, i, j) ==
    IF i < j /\ s1[i + 1] = s2[i + 1] THEN common_prefix(s1, s2, i + 1, j) ELSE i

\* the number of positions at which the flagged characters differ, halved
trans_count(m1, m2) == Cardinality({k \in 1..Len(m1) : m1[k] # m2[k]}) \div 2

\* weight += i * 0.1 * (1.0 - weight) when weight > 0.7, for the weight num/den
\* and a common prefix of i characters
winklerize(num, den, i) ==
    IF 10 * num > 7 * den /\ i > 0 THEN <<10 * num + i * (den - num), 10 * den>>
    ELSE <<num, den>>

\* (common/len1 + common/len2 + (common - trans)/common) / 3 and its boost
jaro_weight(s1, s2, common_chars, trans) ==
    winklerize(common_chars * common_chars * Len(s2) + common_chars * common_chars * Len(s1)
                   + (common_chars - trans) * Len(s1) * Len(s2),
               3 * Len(s1) * Len(s2) * common_chars,
               common_prefix(s1, s2, 0, Min(Min(Len(s1), Len(s2)), 4)))

jaro_flagged(s1, s2, flags) ==
    IF flags.s1 = {} THEN <<0, 1>>
    ELSE jaro_weight(s1, s2, Cardinality(flags.s1),
                     trans_count(flagged(s1, flags.s1, 1), flagged(s2, flags.s2, 1)))

\* jellyfish.jaro_winkler(s1, s2) as the exact fraction <<numerator, denominator>>
jaro_winkler(s1, s2) ==
    IF Len(s1) = 0 \/ Len(s2) = 0 THEN <<0, 1>>
    ELSE jaro_flagged(s1, s2,
             jaro_flags(s1, s2, Max(0, (Max(Len(s1), Len(s2)) \div 2) - 1), 1, {}, {}))

\* distance
distance(a, b) == jaro_winkler(a, b)

\* the comparison the other way round
Less(d, threshold) == d[1] * 100 < threshold * d[2]

\* whether the fraction d is greater than threshold hundredths
Greater(d, threshold) == d[1] * 100 > threshold * d[2]

\* distance(a, b) > threshold
Exceeds(a, b, threshold) == Greater(distance(a, b), threshold)

(***************************************************************************)
(* tfidfmodel.py: TfidfExtractor                                           *)
(***************************************************************************)

\* TfidfExtractor.__init__
TfidfExtractor(parameters) ==
    [type |-> "TfidfExtractor", corpus |-> <<>>, model |-> None,
     parameters |-> parameters, corpus_path |-> EmptyPath]

\* the body of "for entity in files + dirs" in build_corpus, for the entities
\* left; a read_text that raises ends the loop
RECURSIVE read_entities(_, _, _)
read_entities(path, entities, corpus) ==
    IF entities = <<>> THEN Return(corpus)
    ELSE Then(read_text(join(path, entities[1])),
              LAMBDA text : read_entities(path, Tail(entities), Append(corpus, text)))

\* TfidfExtractor.build_corpus(path) for a non-empty path: the value it
\* returns (ret) and self afterwards, or the exception it raises
build_corpus_at(self, path) ==
    IF isfile(path)
    THEN Then(read_text(path), LAMBDA text : Return([ret |-> <<text>>, self |-> self]))
    ELSE IF isdir(path)
    THEN Then(read_entities(path, entity(path).files \o entity(path).dirs, <<>>),
              LAMBDA corpus : Return([ret |-> corpus, self |-> [self EXCEPT !.corpus = corpus]]))
    ELSE Return([ret |-> None, self |-> self])

\* TfidfExtractor.build_corpus
build_corpus(self, path) ==
    build_corpus_at(self, IF path = EmptyPath THEN self.corpus_path ELSE path)

\* TfidfExtractor.train: self afterwards. fit_ok: whether
\* TfidfVectorizer.fit_transform accepts the corpus (it raises ValueError
\* when no term survives the pruning by min_df and max_df).
tfidf_train(self, fit_ok) ==
    IF self.corpus = <<>> THEN Raise("RuntimeError")
    ELSE IF ~fit_ok THEN Raise("ValueError")
    ELSE Return([self EXCEPT !.model = [type |-> "TfidfVectorizer",
                                         lowercase |-> self.parameters.lowercase]])

\* TfidfExtractor.load (joblib.load)
tfidf_load(path) ==
    IF isfile(path) THEN Return(entity(path).pickled) ELSE Raise("FileNotFoundError")

\* the key with the index negated: ties go to the lower index
KeyLessLowIndex(x, y) == x[2] < y[2] \/ (x[2] = y[2] /\ x[1] > y[1])

\* sorted(tuples, key=lambda x: (x[1], x[0])): a tuple is <<index, score>>
KeyLess(x, y) == x[2] < y[2] \/ (x[2] = y[2] /\ x[1] < y[1])

RECURSIVE InsertByKey(_, _)
InsertByKey(sorted_prefix, x) ==
    IF sorted_prefix = <<>> THEN <<x>>
    ELSE IF KeyLess(x, sorted_prefix[Len(sorted_prefix)])
         THEN Append(InsertByKey(SubSeq(sorted_prefix, 1, Len(sorted_prefix) - 1), x),
                     sorted_prefix[Len(sorted_prefix)])
         ELSE Append(sorted_prefix, x)

RECURSIVE sorted_by_key(_)
sorted_by_key(s) ==
    IF s = <<>> THEN <<>>
    ELSE InsertByKey(sorted_by_key(SubSeq(s, 1, Len(s) - 1)), s[Len(s)])

reversed(s) == [i \in 1..Len(s) |-> s[Len(s) + 1 - i]]

\* sorted(tuples, key=lambda x: (x[1], x[0]), reverse=True)
sorted_vectors(tuples) == reversed(sorted_by_key(tuples))

\* zip(coo_matrix.col, coo_matrix.data) of a one-row sparse matrix; the row is
\* a function from its stored column indices (0-based) to their weights
RECURSIVE coo_tuples(_, _, _)
coo_tuples(matrix, i, width) ==
    IF i >= width THEN <<>>
    ELSE (IF i \in DOMAIN matrix THEN <<<<i, matrix[i]>>>> ELSE <<>>)
         \o coo_tuples(matrix, i + 1, width)

\* list[:n] for n >= 0
Slice(list, n) == SubSeq(list, 1, Min(n, Len(list)))

\* TfidfExtractor._extract_topn_from_matrix
extract_topn_from_matrix(matrix, feature_names, n) ==
    LET top == Slice(sorted_vectors(coo_tuples(matrix, 0, Len(feature_names))), n)
    IN  [k \in 1..Len(top) |-> <<feature_names[top[k][1] + 1], top[k][2]>>]

\* TfidfVectorizer.get_feature_names() of the two trained models: the
\* vocabulary, sorted; the step 3 model lower-cases its input
FeatureNames2 == <<T_Ab_Cd, T_aa_cd, T_ab_cd>>
FeatureNames3 == <<T_aa_cd, T_ab_aa, T_ab_cd>>
get_feature_names(model) == IF model.lowercase THEN FeatureNames3 ELSE FeatureNames2

\* TfidfVectorizer.transform([text]): the sparse row of a document
Row(w0, w1, w2) ==
    LET w == <<w0, w1, w2>>
    IN  [i \in {k \in 0..2 : w[k + 1] > 0} |-> w[i + 1]]

transform(model, text) ==
    IF model.lowercase
    THEN (IF text = TextX THEN Row(9, 5, 5) ELSE IF text = TextY THEN Row(0, 0, 0)
          ELSE Row(0, 0, 9))
    ELSE (IF text = TextX THEN Row(5, 5, 9) ELSE IF text = TextY THEN Row(0, 9, 0)
          ELSE Row(9, 0, 5))

\* TfidfExtractor.extract_keywords after read_text
tfidf_extract_from(self, text, n) ==
    IF text = <<>> THEN Raise("RuntimeError")
    ELSE IF self.model = None THEN Raise("RuntimeError")
    ELSE Return(extract_topn_from_matrix(transform(self.model, text),
                                         get_feature_names(self.model), n))

\* TfidfExtractor.extract_keywords
tfidf_extract_keywords(self, text_path, n) ==
    Then(read_text(text_path), LAMBDA text : tfidf_extract_from(self, text, n))

(***************************************************************************)
(* yakemodel.py: YakeExtractor                                             *)
(***************************************************************************)

\* yake.KeywordExtractor(top=n).extract_keywords(text): the ranked candidates
\* of a document (lower score is better), cut to n
yake(text, n) ==
    Slice(IF text = TextX THEN <<<<T_ab_aa, 1>>, <<T_ab_cd, 2>>, <<T_bb_cd, 3>>>>
          ELSE IF text = TextY THEN <<<<T_a1_cd, 1>>, <<T_ab_CD, 2>>>>
          ELSE <<<<T_Ab_Cd, 1>>, <<T_a_b_cd, 2>>, <<T_ab_ab_ab, 3>>>>, n)


\* YakeExtractor.extract_keywords
yake_extract_keywords(text_path, n) ==
    Then(read_text(text_path),
         LAMBDA text : IF text = <<>> THEN Raise("RuntimeError") ELSE Return(yake(text, n)))

(***************************************************************************)
(* langscikw.py: KWE                                                       *)
(***************************************************************************)

JOBLIB_EXTS == {<<"z">>, <<"g", "z">>, <<"b", "z", "2">>, <<"x", "z">>, <<"l", "z", "m", "a">>}

step2_params == [lowercase |-> FALSE]
step3_params == [lowercase |-> TRUE]

\* the corpus of _train_model's extractor: loaded by joblib or built
load_or_build(tfidf, corpus_path) ==
    IF AfterLast(corpus_path, ".") \in JOBLIB_EXTS
    THEN Then(tfidf_load(corpus_path), LAMBDA corpus : Return([tfidf EXCEPT !.corpus = corpus]))
    ELSE Then(build_corpus(tfidf, corpus_path), LAMBDA built : Return(built.self))

\* KWE._train_model with self.max_steps = steps_before: the value it returns
\* (ret) and self.max_steps afterwards, or the exception it raises
train_model(steps_before, corpus_path, params, fit_ok) ==
    IF corpus_path = EmptyPath THEN Return([ret |-> None, max_steps |-> steps_before])
    ELSE Then(load_or_build(TfidfExtractor(params), corpus_path),
              LAMBDA tfidf :
                  Then(tfidf_train(tfidf, fit_ok),
                       LAMBDA trained :
                           Return([ret |-> trained, max_steps |-> steps_before + 1])))

\* the delimiter " § " (the character is written "|" here)
Delimiter == <<" ", "|", " ">>

\* list[:-1]
DropLast(list) == SubSeq(list, 1, Len(list) - 1)

\* the set of previously seen keywords _extract_filler_kws reads from kw_corpus
read_kw_corpus(kw_corpus) ==
    Range(split_sep(preprocess(str_join(Delimiter,
                        DropLast(split_sep(entity(kw_corpus).text, NewLine, <<>>)))),
                    Delimiter, <<>>))

\* (k[0].lower(), k[1])
Lowered(k) == <<lower(k[1]), k[2]>>

Map(list, F(_)) == [i \in 1..Len(list) |-> F(list[i])]

\* the union with the second pass keeping the candidates as they are
kws_union_as_is(kws, corpus) ==
    SelectSeq(kws, LAMBDA k : k[1] \in corpus)
        \o SelectSeq(kws, LAMBDA k : lower(k[1]) \in corpus)

\* kws_union, from the step 3 candidates and the keyword set
kws_union(kws, corpus) ==
    SelectSeq(kws, LAMBDA k : k[1] \in corpus)
        \o Map(SelectSeq(kws, LAMBDA k : lower(k[1]) \in corpus), Lowered)

\* int(n * 1.5)
FillerCount(n) == (3 * n) \div 2

\* KWE._extract_filler_kws after the step 3 extraction
filler_from(kws, kw_corpus) ==
    IF ~isfile(kw_corpus) THEN Raise("FileNotFoundError")
    ELSE Return(kws_union(kws, read_kw_corpus(kw_corpus)))

\* KWE._extract_filler_kws
extract_filler_kws(model, text_path, n, kw_corpus) ==
    IF model = None THEN Raise("AttributeError")
    ELSE Then(tfidf_extract_keywords(model, text_path, FillerCount(n)),
              LAMBDA kws : filler_from(kws, kw_corpus))

Count(list, x) == Cardinality({i \in 1..Len(list) : list[i] = x})

\* the three "continue" tests of _deduplicate on a candidate's tokens
Ignored(tokens) ==
    \/ /\ ~(\A i \in 1..Len(tokens) : isalpha(tokens[i]))
       /\ ~(\E i \in 1..Len(tokens) : "-" \in Range(tokens[i]))
    \/ Count(tokens, tokens[1]) > 2
    \/ Len(tokens) >= 2 /\ islower(tokens[1]) /\ isupper(tokens[2])

\* no comparison at all
IncludeAlways(candidate, final_kws, threshold) == TRUE

\* a comparison with the last accepted keyword only
IncludeLast(candidate, final_kws, threshold) ==
    final_kws = <<>> \/ ~Exceeds(candidate, final_kws[Len(final_kws)], threshold)

\* include, after "for kw in final_kws"
Include(candidate, final_kws, threshold) ==
    \A k \in 1..Len(final_kws) : ~Exceeds(candidate, final_kws[k], threshold)

\* the body of "for candidate in all_kws": final_kws afterwards
dedup_body(final_kws, candidate, threshold) ==
    IF Ignored(split_ws(candidate, <<>>)) THEN final_kws
    ELSE IF Include(candidate, final_kws, threshold) THEN Append(final_kws, candidate)
    ELSE final_kws

\* tokens[0] of a candidate without tokens raises IndexError
NoTokens(candidate) == split_ws(candidate, <<>>) = <<>>

RECURSIVE dedup_loop(_, _, _)
dedup_loop(all_kws, final_kws, threshold) ==
    IF all_kws = <<>> THEN Return(final_kws)
    ELSE IF NoTokens(all_kws[1]) THEN Raise("IndexError")
    ELSE dedup_loop(Tail(all_kws), dedup_body(final_kws, all_kws[1], threshold), threshold)

\* KWE._deduplicate, all_kws being the set {k[0] for k in kws} in the order
\* the loop iterates it
deduplicate(all_kws, threshold) == dedup_loop(all_kws, <<>>, threshold)

\* {k[0] for k in kws}
TermSet(kws) == {kws[i][1] : i \in 1..Len(kws)}

\* a return without the sorting
Unsorted(kws) == kws

\* the last statement of extract_keywords
Sorted(kws) == sorted(kws)


\* extract_keywords, step 2 ("if self.max_steps > 1")
extract_step2(steps, model, path, n) ==
    IF steps > 1
    THEN (IF model = None THEN Raise("AttributeError")
          ELSE tfidf_extract_keywords(model, path, n))
    ELSE Return(<<>>)

\* extract_keywords, step 3 ("if self.max_steps > 2")
extract_step3(steps, model, path, n, kw_corpus) ==
    IF steps > 2 THEN extract_filler_kws(model, path, n, kw_corpus) ELSE Return(<<>>)

(***************************************************************************)
(* The KWE object as a state machine                                       *)
(***************************************************************************)

CorpusPaths == {Path_c_gz, Path_e_gz, Path_b_tex, Path_d, Path_m, Path_s, Path_n}
Documents == {Path_b_tex, Path_y_txt, Path_z_txt, Path_n}
KwCorpora == {Path_kw1, Path_kw2}
DedupLims == {80, 85}

\* The counter is capped so that the state space is finite.
MaxSteps == 5

\* The largest n extract_keywords is called with.
MaxN == 1

\* What the last extract_keywords call did: its arguments, the candidates of
\* steps 1 and 2, whether _extract_filler_kws was called, and the order in
\* which _deduplicate iterated the set of candidates.
NoCall == [n |-> 0, dedup_lim |-> 0, step1 |-> <<>>, step2 |-> <<>>,
           filler |-> FALSE, order |-> <<>>]

\* No train call yet.
NoTraining == [step2 |-> FALSE, step3 |-> FALSE]

\* The parts of the state a specification does not use stay as they are here.
DedupIdle == dedup = [all_kws |-> <<>>, threshold |-> 0, final_kws |-> <<>>, i |-> 0, pc |-> "idle"]
ChaptersIdle == chapters = [input |-> <<>>, files |-> <<>>, c |-> 0, it |-> 0, pc |-> "idle"]
TopNIdle == topn = [matrix |-> <<>>, n |-> 0, results |-> <<>>, pc |-> "idle"]
FillerIdle == filler = [kws |-> <<>>, kw_corpus |-> EmptyPath, kws_union |-> <<>>, pc |-> "idle"]
TfidfIdle == extractor = [path |-> EmptyPath, self |-> None, ret |-> None, built |-> "none",
                          trained |-> "none", pc |-> "idle"]
ReadIdle == read = [path |-> EmptyPath, exc |-> "none", text |-> <<>>, pc |-> "idle"]

\* KWE.__init__
InitKWE ==
    /\ max_steps = 1
    /\ model_step2 = None
    /\ model_step3 = None
    /\ op = "init"
    /\ raised = "none"
    /\ keywords = <<>>
    /\ call = NoCall
    /\ train_log = NoTraining

Init == InitKWE /\ DedupIdle /\ ChaptersIdle /\ TopNIdle /\ FillerIdle /\ TfidfIdle /\ ReadIdle

\* KWE.train(corpus_step2, corpus_step3)
Train ==
    \E corpus_step2 \in CorpusPaths, corpus_step3 \in CorpusPaths \cup {EmptyPath},
       fit2 \in BOOLEAN, fit3 \in BOOLEAN :
        /\ max_steps + 2 <= MaxSteps
        /\ op' = "train"
        /\ keywords' = <<>>
        /\ call' = NoCall
        /\ UNCHANGED <<dedup, chapters, topn, filler, extractor, read>>
        /\ \E r2 \in {train_model(max_steps, corpus_step2, step2_params, fit2)} :
            IF r2.exc # "none"
            THEN /\ raised' = r2.exc
                 /\ UNCHANGED <<max_steps, model_step2, model_step3, train_log>>
            ELSE /\ model_step2' = r2.val.ret
                 /\ train_log' = [step2 |-> TRUE,
                                  step3 |-> train_log.step3 \/ corpus_step3 # EmptyPath]
                 /\ \E r3 \in {train_model(r2.val.max_steps, corpus_step3, step3_params, fit3)} :
                     IF r3.exc # "none"
                     THEN /\ raised' = r3.exc
                          /\ max_steps' = r2.val.max_steps
                          /\ UNCHANGED model_step3
                     ELSE /\ raised' = "none"
                          /\ max_steps' = r3.val.max_steps
                          /\ model_step3' = r3.val.ret

\* KWE.reset
Reset ==
    /\ max_steps' = 1
    /\ model_step2' = None
    /\ model_step3' = None
    /\ op' = "reset"
    /\ raised' = "none"
    /\ keywords' = <<>>
    /\ call' = NoCall
    /\ train_log' = NoTraining
    /\ UNCHANGED <<dedup, chapters, topn, filler, extractor, read>>

\* KWE.extract_keywords(path, n, kw_corpus, dedup_lim)
Extract ==
    \E path \in Documents, n \in 1..MaxN, kw_corpus \in KwCorpora, dedup_lim \in DedupLims :
        /\ op' = "extract_keywords"
        /\ UNCHANGED <<max_steps, model_step2, model_step3, train_log>>
        /\ UNCHANGED <<dedup, chapters, topn, filler, extractor, read>>
        /\ \E step1 \in {yake_extract_keywords(path, n)} :
            IF step1.exc # "none"
            THEN /\ raised' = step1.exc
                 /\ keywords' = <<>>
                 /\ call' = [NoCall EXCEPT !.n = n, !.dedup_lim = dedup_lim]
            ELSE \E step2 \in {extract_step2(max_steps, model_step2, path, n)} :
                IF step2.exc # "none"
                THEN /\ raised' = step2.exc
                     /\ keywords' = <<>>
                     /\ call' = [NoCall EXCEPT !.n = n, !.dedup_lim = dedup_lim,
                                               !.step1 = step1.val]
                ELSE \E step3 \in {extract_step3(max_steps, model_step3, path, n, kw_corpus)} :
                    IF step3.exc # "none"
                    THEN /\ raised' = step3.exc
                         /\ keywords' = <<>>
                         /\ call' = [NoCall EXCEPT !.n = n, !.dedup_lim = dedup_lim,
                                                   !.step1 = step1.val, !.step2 = step2.val,
                                                   !.filler = max_steps > 2]
                    ELSE \E order \in Orders(TermSet(step1.val \o step2.val \o step3.val)) :
                         \E final_kws \in {deduplicate(order, dedup_lim)} :
                            /\ raised' = final_kws.exc
                            /\ keywords' = IF final_kws.exc = "none"
                                           THEN Sorted(final_kws.val) ELSE <<>>
                            /\ call' = [n |-> n, dedup_lim |-> dedup_lim,
                                        step1 |-> step1.val, step2 |-> step2.val,
                                        filler |-> max_steps > 2, order |-> order]

Next == Train \/ Reset \/ Extract

Spec == Init /\ [][Next]_vars

(***************************************************************************)
(* Properties of the KWE object                                            *)
(***************************************************************************)

\* C1: after any sequence of train, extract_keywords and reset calls the
\* stage counter max_steps is 1, 2 or 3.
C1_MaxStepsIsStageCount == max_steps \in {1, 2, 3}

\* C2: every stage extract_keywords would run has a trained model:
\* max_steps > 1 implies model_step2 is present, max_steps > 2 implies
\* model_step3 is present.
C2_StagesHaveModels ==
    /\ max_steps > 1 => model_step2 # None
    /\ max_steps > 2 => model_step3 # None

\* the results _deduplicate and sorted() can give for the candidates kws
Outputs(kws, threshold) ==
    {Sorted(deduplicate(order, threshold).val) : order \in Orders(TermSet(kws))}

\* C3: a pipeline whose train calls all had an empty corpus_step3 (and of
\* which one at least completed step 2) never calls _extract_filler_kws in
\* extract_keywords, and what extract_keywords returns is the deduplicated,
\* sorted result of the step 1 and step 2 candidates.
C3_StageGating ==
    (op = "extract_keywords" /\ train_log.step2 /\ ~train_log.step3)
        => /\ ~call.filler
           /\ raised = "none" => keywords \in Outputs(call.step1 \o call.step2, call.dedup_lim)

\* C4: the list extract_keywords returns is in ascending string order and
\* holds no term twice.
C4_SortedAndDistinct ==
    (op = "extract_keywords" /\ raised = "none")
        => \A i, j \in 1..Len(keywords) : i < j => StrLess(keywords[i], keywords[j])

\* C4's case: all three steps ran, steps 1 and 2 gave the same term, and
\* several keywords were returned.
C4_Witness ==
    /\ op = "extract_keywords" /\ raised = "none" /\ call.filler
    /\ TermSet(call.step1) \cap TermSet(call.step2) # {}
    /\ Len(keywords) >= 2

\* C5: extract_keywords(document, n) returns at most n keywords.
C5_AtMostN == op = "extract_keywords" => Len(keywords) <= call.n

(***************************************************************************)
(* KWE._deduplicate, one candidate at a time                               *)
(***************************************************************************)

\* the candidates _deduplicate is called with
DedupTerms == {T_ab_aa, T_ab_cd, T_aa_cd, T_bb_cd, T_ab_Cd, T_a1_cd}

\* the thresholds, in hundredths
Thresholds == {0, 80, 85, 100}

\* The largest set of candidates _deduplicate is called with.
MaxCandidates == 4

\* the call _deduplicate(kws, threshold), before "for candidate in all_kws"
InitDedup ==
    /\ InitKWE /\ ChaptersIdle /\ TopNIdle /\ FillerIdle /\ TfidfIdle /\ ReadIdle
    /\ \E all_kws \in Lists(DedupTerms, MaxCandidates), threshold \in Thresholds :
        dedup = [all_kws |-> all_kws, threshold |-> threshold, final_kws |-> <<>>,
                 i |-> 0, pc |-> "loop"]

\* one pass of "for candidate in all_kws"
DedupIter ==
    /\ dedup.pc = "loop"
    /\ dedup.i < Len(dedup.all_kws)
    /\ dedup' = IF NoTokens(dedup.all_kws[dedup.i + 1])
                THEN [dedup EXCEPT !.pc = "IndexError"]
                ELSE [dedup EXCEPT !.i = dedup.i + 1,
                                   !.final_kws = dedup_body(dedup.final_kws,
                                                            dedup.all_kws[dedup.i + 1],
                                                            dedup.threshold)]
    /\ UNCHANGED <<kwe_vars, chapters, topn, filler, extractor, read>>

\* "return final_kws"
DedupReturn ==
    /\ dedup.pc = "loop"
    /\ dedup.i = Len(dedup.all_kws)
    /\ dedup' = [dedup EXCEPT !.pc = "returned"]
    /\ UNCHANGED <<kwe_vars, chapters, topn, filler, extractor, read>>

NextDedup == DedupIter \/ DedupReturn

SpecDedup == InitDedup /\ [][NextDedup]_vars

\* C6: _deduplicate applied to the terms _deduplicate returned, with the same
\* threshold and in whatever order the set of them is iterated, returns the
\* same set of terms.
C6_Idempotent ==
    dedup.pc = "returned"
        => \A order \in Orders(Range(dedup.final_kws)) :
            /\ deduplicate(order, dedup.threshold).exc = "none"
            /\ Range(deduplicate(order, dedup.threshold).val) = Range(dedup.final_kws)

\* C6's case: _deduplicate returned several terms and dropped a candidate as
\* the near-duplicate of one of them.
C6_Witness ==
    /\ dedup.pc = "returned"
    /\ Len(dedup.final_kws) >= 2
    /\ \E i \in 1..Len(dedup.all_kws) :
        /\ ~Ignored(split_ws(dedup.all_kws[i], <<>>))
        /\ dedup.all_kws[i] \notin Range(dedup.final_kws)

\* C7 as the specification states it: with the candidates iterated in the same
\* order, a lower threshold never gives more terms than a higher one.
C7_Monotone ==
    dedup.pc = "returned"
        => \A t1 \in Thresholds :
            t1 < dedup.threshold
                => Len(deduplicate(dedup.all_kws, t1).val) <= Len(dedup.final_kws)

\* C7, as far as it holds: with at most three candidates iterated in the same
\* order, a lower threshold never gives more terms than a higher one.
C7_MonotoneUpToThree ==
    (dedup.pc = "returned" /\ Len(dedup.all_kws) <= 3)
        => \A t1 \in Thresholds :
            t1 < dedup.threshold
                => Len(deduplicate(dedup.all_kws, t1).val) <= Len(dedup.final_kws)

\* C7's case: three candidates, and a lower threshold that gives fewer terms.
C7_Witness ==
    /\ dedup.pc = "returned"
    /\ Len(dedup.all_kws) = 3
    /\ \E t1 \in Thresholds :
        /\ t1 < dedup.threshold
        /\ Len(deduplicate(dedup.all_kws, t1).val) < Len(dedup.final_kws)

\* C14: during the loop of _deduplicate and in its result, no accepted term
\* has a similarity greater than threshold to a term accepted before it.
C14_AcceptedApart ==
    \A j \in 1..Len(dedup.final_kws) :
        \A i \in 1..(j - 1) :
            ~Exceeds(dedup.final_kws[j], dedup.final_kws[i], dedup.threshold)

\* C14's case: in the middle of the loop, with two terms accepted and a
\* candidate dropped as the near-duplicate of one of them.
C14_Witness ==
    /\ dedup.pc = "loop"
    /\ dedup.i < Len(dedup.all_kws)
    /\ Len(dedup.final_kws) >= 2
    /\ \E k \in 1..dedup.i :
        /\ ~Ignored(split_ws(dedup.all_kws[k], <<>>))
        /\ dedup.all_kws[k] \notin Range(dedup.final_kws)

\* C15: no term _deduplicate accepts has a lowercase first token followed by
\* a second token that starts with an uppercase letter.
C15_LowerThenCapitalRejected ==
    \A k \in 1..Len(dedup.final_kws) :
        LET tokens == split_ws(dedup.final_kws[k], <<>>)
        IN  ~(/\ Len(tokens) >= 2
              /\ islower(tokens[1])
              /\ tokens[2][1] \in Uppers)

(***************************************************************************)
(* _sort_chapters, one statement at a time                                 *)
(***************************************************************************)

File_a_tex == <<"a", ".", "t", "e", "x">>
File_z_tex == <<"z", ".", "t", "e", "x">>
File_intro_tex == Str_intro \o <<".", "t", "e", "x">>
File_conclusion_tex == Str_conclusion \o <<".", "t", "e", "x">>

\* the file names _sort_chapters is called with
ChapterNames == {Name_1_tex, File_a_tex, File_z_tex, File_intro_tex, File_conclusion_tex}

\* The longest list _sort_chapters is called with.
MaxFiles == 3

\* the call _sort_chapters(files)
InitChapters ==
    /\ InitKWE /\ DedupIdle /\ TopNIdle /\ FillerIdle /\ TfidfIdle /\ ReadIdle
    /\ \E files \in Lists(ChapterNames, MaxFiles) :
        chapters = [input |-> files, files |-> files, c |-> 0, it |-> 0, pc |-> "start"]

\* "files = sorted(files)" and "c = 0"
ChaptersSort ==
    /\ chapters.pc = "start"
    /\ \E st \in {sort_chapters_start(chapters.input)} :
        chapters' = [chapters EXCEPT !.files = st.files, !.c = st.c, !.it = st.it,
                                     !.pc = "loop"]
    /\ UNCHANGED <<kwe_vars, dedup, topn, filler, extractor, read>>

\* one pass of "for f in files"
ChaptersIter ==
    /\ chapters.pc = "loop"
    /\ chapters.it < Len(chapters.files)
    /\ \E st \in {sort_chapters_body([files |-> chapters.files, c |-> chapters.c,
                                     it |-> chapters.it])} :
        chapters' = [chapters EXCEPT !.files = st.files, !.c = st.c, !.it = st.it]
    /\ UNCHANGED <<kwe_vars, dedup, topn, filler, extractor, read>>

\* the iterator is exhausted: "return files"
ChaptersReturn ==
    /\ chapters.pc = "loop"
    /\ chapters.it >= Len(chapters.files)
    /\ chapters' = [chapters EXCEPT !.pc = "returned"]
    /\ UNCHANGED <<kwe_vars, dedup, topn, filler, extractor, read>>

NextChapters == ChaptersSort \/ ChaptersIter \/ ChaptersReturn

SpecChapters == InitChapters /\ [][NextChapters]_vars

\* C8: when exactly one of the names matches the introduction pattern and
\* exactly one other name matches the conclusion pattern, _sort_chapters
\* returns the introduction first and the conclusion last.
C8_IntroFirstConclusionLast ==
    LET intros == {f \in Range(chapters.input) : IsIntro(f)}
        conclusions == {f \in Range(chapters.input) : IsConclusion(f)}
    IN  (/\ chapters.pc = "returned"
         /\ Cardinality(intros) = 1
         /\ Cardinality(conclusions) = 1
         /\ intros # conclusions)
            => /\ chapters.files[1] \in intros
               /\ chapters.files[Len(chapters.files)] \in conclusions

\* The statements of a function run one after the other until it returns.
SpecChaptersFair == SpecChapters /\ WF_vars(NextChapters)

\* C16: _sort_chapters returns, and its list holds at every moment each name
\* of its argument once: no name is lost and none is there twice.
C16_ReturnsPermutation ==
    /\ [](/\ Len(chapters.files) = Len(chapters.input)
          /\ Range(chapters.files) = Range(chapters.input))
    /\ <>(chapters.pc = "returned")

\* C16's case: a call with introduction and conclusion names that returned
\* something else than the sorted list.
C16_Witness ==
    /\ chapters.pc = "returned"
    /\ chapters.files # sorted(chapters.input)
    /\ \E f \in Range(chapters.input) : IsIntro(f)
    /\ \E f \in Range(chapters.input) : IsConclusion(f)

(***************************************************************************)
(* TfidfExtractor._extract_topn_from_matrix                                *)
(***************************************************************************)

\* the weights of a row, in tenths
Weights == {5, 9}

\* The largest n _extract_topn_from_matrix is called with.
MaxTopN == 3

\* the sparse rows over the vocabulary of the step 2 model
SparseRows == UNION {[cols -> Weights] : cols \in SUBSET (0..(Len(FeatureNames2) - 1))}

\* the call _extract_topn_from_matrix(matrix, feature_names, n)
InitTopN ==
    /\ InitKWE /\ DedupIdle /\ ChaptersIdle /\ FillerIdle /\ TfidfIdle /\ ReadIdle
    /\ \E matrix \in SparseRows, n \in 0..MaxTopN :
        topn = [matrix |-> matrix, n |-> n, results |-> <<>>, pc |-> "start"]

\* TfidfExtractor._extract_topn_from_matrix
ExtractTopN ==
    /\ topn.pc = "start"
    /\ topn' = [topn EXCEPT !.results = extract_topn_from_matrix(topn.matrix, FeatureNames2,
                                                                 topn.n),
                            !.pc = "returned"]
    /\ UNCHANGED <<kwe_vars, dedup, chapters, filler, extractor, read>>

NextTopN == ExtractTopN

SpecTopN == InitTopN /\ [][NextTopN]_vars

\* the place of a stored entry among the stored entries of the row, by weight
\* descending and, among equal weights, by index descending
Place(matrix, i) ==
    1 + Cardinality({j \in DOMAIN matrix :
                        \/ matrix[j] > matrix[i]
                        \/ matrix[j] = matrix[i] /\ j > i})

\* C9: _extract_topn_from_matrix returns the first min(n, number of stored
\* entries) entries of the row by weight descending and, among equal weights,
\* by index descending, each as (feature_names[index], weight); the row
\* {0: 0.5, 1: 0.5, 2: 0.9} with n = 2 gives [(term 2, 0.9), (term 1, 0.5)].
C9_TopN ==
    topn.pc = "returned"
        => /\ Len(topn.results) = Min(topn.n, Cardinality(DOMAIN topn.matrix))
           /\ \A i \in DOMAIN topn.matrix :
                Place(topn.matrix, i) <= Len(topn.results)
                    => topn.results[Place(topn.matrix, i)]
                         = <<FeatureNames2[i + 1], topn.matrix[i]>>
           /\ (topn.matrix = Row(5, 5, 9) /\ topn.n = 2)
                => topn.results = <<<<FeatureNames2[3], 9>>, <<FeatureNames2[2], 5>>>>

\* C9's case: the row {0: 0.5, 1: 0.5, 2: 0.9} with n = 2, where the cut falls
\* between two entries of equal weight.
C9_Witness ==
    /\ topn.pc = "returned"
    /\ topn.matrix = Row(5, 5, 9)
    /\ topn.n = 2
    /\ Len(topn.results) = 2

(***************************************************************************)
(* KWE._extract_filler_kws, from the step 3 candidates on                  *)
(***************************************************************************)

\* the terms and scores of the step 3 candidates
FillerTerms == {T_Ab_Cd, T_ab_cd, T_aa_cd, T_ab_aa}
FillerScores == {5, 9}

\* The longest list of step 3 candidates.
MaxFillerKws == 2

\* the keyword lists
FillerCorpora == {Path_kw1, Path_kw2, Path_kw3, Path_kw4}

\* the lists of candidates: distinct terms, each with a score
Candidates(maxlen) ==
    UNION {{[i \in 1..Len(terms) |-> <<terms[i], score[i]>>] :
                score \in [1..Len(terms) -> FillerScores]} :
            terms \in Lists(FillerTerms, maxlen)}

\* _extract_filler_kws after self.model_step3.extract_keywords
InitFiller ==
    /\ InitKWE /\ DedupIdle /\ ChaptersIdle /\ TopNIdle /\ TfidfIdle /\ ReadIdle
    /\ \E kws \in Candidates(MaxFillerKws), kw_corpus \in FillerCorpora :
        filler = [kws |-> kws, kw_corpus |-> kw_corpus, kws_union |-> <<>>, pc |-> "start"]

\* the rest of _extract_filler_kws
FillerUnion ==
    /\ filler.pc = "start"
    /\ \E r \in {filler_from(filler.kws, filler.kw_corpus)} :
        filler' = IF r.exc # "none" THEN [filler EXCEPT !.pc = r.exc]
                  ELSE [filler EXCEPT !.kws_union = r.val, !.pc = "returned"]
    /\ UNCHANGED <<kwe_vars, dedup, chapters, topn, extractor, read>>

NextFiller == FillerUnion

SpecFiller == InitFiller /\ [][NextFiller]_vars

\* the candidates whose term is in R, and those whose lower-cased term is
Verbatim(K, R) == {i \in 1..Len(K) : K[i][1] \in R}
LowerCased(K, R) == {i \in 1..Len(K) : lower(K[i][1]) \in R}

\* the number of members of S up to i
Rank(S, i) == Cardinality({j \in S : j <= i})

\* C10: _extract_filler_kws returns the candidates whose term is in the
\* reference set R, in their order, followed by (lower(term), score) for the
\* candidates whose lower-cased term is in R, in their order; every returned
\* term is in R and keeps the score of its candidate.
C10_FillerUnion ==
    LET K == filler.kws
        R == read_kw_corpus(filler.kw_corpus)
        out == filler.kws_union
    IN  filler.pc = "returned"
            => /\ Len(out) = Cardinality(Verbatim(K, R)) + Cardinality(LowerCased(K, R))
               /\ \A i \in Verbatim(K, R) : out[Rank(Verbatim(K, R), i)] = K[i]
               /\ \A i \in LowerCased(K, R) :
                    out[Cardinality(Verbatim(K, R)) + Rank(LowerCased(K, R), i)]
                        = <<lower(K[i][1]), K[i][2]>>
               /\ \A k \in 1..Len(out) : out[k][1] \in R

\* C10's case: a capitalised candidate whose term and lower-cased term are
\* both in R gives both entries.
C10_Witness ==
    /\ filler.pc = "returned"
    /\ {T_Ab_Cd, T_ab_cd} \subseteq read_kw_corpus(filler.kw_corpus)
    /\ \E i \in 1..Len(filler.kws) :
        /\ filler.kws[i][1] = T_Ab_Cd
        /\ <<T_Ab_Cd, filler.kws[i][2]>> \in Range(filler.kws_union)
        /\ <<T_ab_cd, filler.kws[i][2]>> \in Range(filler.kws_union)

(***************************************************************************)
(* A TfidfExtractor through build_corpus and train, as in _train_model     *)
(***************************************************************************)

\* the paths build_corpus is called with
ListedDirs == {ListedDir(list) : list \in Lists(EntryNames, MaxEntries)}
BuildPaths ==
    ListedDirs \cup {EmptyPath, Path_b_tex, Path_y_txt, Path_d, Path_m, Path_s, Path_n,
                     join(Path_m, Name_x_pdf)}

\* tfidf = TfidfExtractor(parameters=params), before tfidf.build_corpus(corpus_path)
InitCorpus ==
    /\ InitKWE /\ DedupIdle /\ ChaptersIdle /\ TopNIdle /\ FillerIdle /\ ReadIdle
    /\ \E path \in BuildPaths, params \in {step2_params, step3_params} :
        extractor = [path |-> path, self |-> TfidfExtractor(params), ret |-> None,
                     built |-> "pending", trained |-> "pending", pc |-> "build_corpus"]

\* TfidfExtractor.build_corpus(path)
BuildCorpus ==
    /\ extractor.pc = "build_corpus"
    /\ \E r \in {build_corpus(extractor.self, extractor.path)} :
        extractor' = IF r.exc # "none"
                     THEN [extractor EXCEPT !.built = r.exc, !.pc = "raised"]
                     ELSE [extractor EXCEPT !.self = r.val.self, !.ret = r.val.ret,
                                            !.built = "none", !.pc = "train"]
    /\ UNCHANGED <<kwe_vars, dedup, chapters, topn, filler, read>>

\* TfidfExtractor.train()
TrainCorpus ==
    /\ extractor.pc = "train"
    /\ \E fit_ok \in BOOLEAN :
        \E r \in {tfidf_train(extractor.self, fit_ok)} :
            extractor' = IF r.exc # "none"
                         THEN [extractor EXCEPT !.trained = r.exc, !.pc = "raised"]
                         ELSE [extractor EXCEPT !.self = r.val, !.trained = "none",
                                                !.pc = "trained"]
    /\ UNCHANGED <<kwe_vars, dedup, chapters, topn, filler, read>>

NextCorpus == BuildCorpus \/ TrainCorpus

SpecCorpus == InitCorpus /\ [][NextCorpus]_vars

\* the names of a list with an extension of the allow-list, and the others
Allowed(names) == SelectSeq(names, LAMBDA f : LastChars(f, 4) \in legal_files)
NotAllowed(names) == SelectSeq(names, LAMBDA f : LastChars(f, 4) \notin legal_files)

\* C11: build_corpus on a directory of files, some of them with an extension
\* outside the allow-list, skips those, raises nothing and leaves as corpus
\* the texts of the allowed files.
C11_OthersSkipped ==
    LET path == extractor.path
        allowed == Allowed(entity(path).files)
    IN  (/\ extractor.pc \in {"train", "trained", "raised"}
         /\ isdir(path)
         /\ entity(path).dirs = <<>>
         /\ NotAllowed(entity(path).files) # <<>>)
            => /\ extractor.built = "none"
               /\ extractor.self.corpus
                    = [i \in 1..Len(allowed) |-> entity(join(path, allowed[i])).text]

\* C13: after build_corpus on a single file of the allow-list, the corpus of
\* the extractor is the one-element list of the text of the file, and train
\* does not raise the RuntimeError of the empty corpus.
C13_SingleFileCorpus ==
    (/\ extractor.pc \in {"train", "trained", "raised"}
     /\ isfile(extractor.path)
     /\ LastChars(extractor.path, 4) \in legal_files)
        => /\ extractor.built = "none"
           /\ extractor.self.corpus = <<entity(extractor.path).text>>
           /\ extractor.trained # "RuntimeError"

(***************************************************************************)
(* read_text                                                               *)
(***************************************************************************)

\* the paths read_text is called with: everything there is, and two paths
\* with nothing behind them
ReadPaths == DOMAIN FileSystem \cup {Path_n, join(Path_n, Name_a_txt)}

\* the call read_text(path)
InitRead ==
    /\ InitKWE /\ DedupIdle /\ ChaptersIdle /\ TopNIdle /\ FillerIdle /\ TfidfIdle
    /\ \E path \in ReadPaths :
        read = [path |-> path, exc |-> "none", text |-> <<>>, pc |-> "start"]

\* read_text
ReadText ==
    /\ read.pc = "start"
    /\ \E r \in {read_text(read.path)} :
        read' = [read EXCEPT !.exc = r.exc,
                             !.text = IF r.exc = "none" THEN r.val ELSE <<>>,
                             !.pc = "done"]
    /\ UNCHANGED <<kwe_vars, dedup, chapters, topn, filler, extractor>>

NextRead == ReadText

SpecRead == InitRead /\ [][NextRead]_vars

\* C12: read_text on a directory without a file of the allow-list raises
\* nothing and returns the empty text.
C12_NoLegalFilesNotFatal ==
    (/\ read.pc = "done"
     /\ isdir(read.path)
     /\ Allowed(listdir(read.path)) = <<>>)
        => /\ read.exc = "none"
           /\ read.text = <<>>

====
